---- MODULE Spec2Model ----
(***************************************************************************)
(* National Gallery of Art web scraper (artists.py).                       *)
(*                                                                         *)
(* main() opens artist_data.csv, writes the header row, and for every      *)
(* letter page fetches the list of <a> tags and hands it to write_data,    *)
(* which derives a Wikipedia search name from each display name, looks it  *)
(* up, decides whether the page found describes the artist, and writes one *)
(* row per name.                                                           *)
(*                                                                         *)
(* A Python str is modelled as a sequence of one-character strings, so     *)
(* that split, strip, lower and + are computed character by character.     *)
(***************************************************************************)
EXTENDS Naturals, Sequences, FiniteSets

VARIABLES
    pc,            \* position of the program
    file,          \* state of the handle opened at line 114
    sink,          \* the rows handed to file.writerow, in order
    character,     \* number of letter pages taken by the loop of line 118
    name_list,     \* the list write_data iterates over
    idx,           \* position of `name` in name_list (1-based), 0 outside
    base,          \* Len(sink) when the running write_data was called
    wiki_name,     \* local of write_data
    wiki_page,     \* local of write_data: what wikipedia.page gave
    wiki_summary,  \* local of write_data
    is_artist,     \* what check_if_artist returned for this name, if called
    exc,           \* the exception that left main, "none" while there is none
    lookups        \* the names wikipedia.page has been called with, in order

vars == <<pc, file, sink, character, name_list, idx, base, wiki_name,
          wiki_page, wiki_summary, is_artist, exc, lookups>>

(***************************************************************************)
(* Bounds of the model.                                                    *)
(***************************************************************************)
\* letter pages of the run (string.ascii_uppercase has 26)
NumPages == 2
\* <a> tags over the whole run
MaxEntries == 3
\* length of a display name in DeriveSpec
MaxNameLen == 6
\* length of the generated category string in ClassifySpec
MaxCatLen == 4
\* categories of a page in ClassifySpec
MaxCats == 2

(***************************************************************************)
(* Python strings.                                                         *)
(***************************************************************************)
\* what str.split() with no argument splits on: string.whitespace (less the
\* vertical tab and the form feed, which no TLA+ string can hold)
whitespace == {" ", "\t", "\n", "\r"}

\* string.punctuation (less the backquote, which no TLA+ string can hold)
punctuation ==
    {"!", "\"", "#", "$", "%", "&", "'", "(", ")", "*", "+", ",", "-", ".",
     "/", ":", ";", "<", "=", ">", "?", "@", "[", "\\", "]", "^", "_", "{",
     "|", "}", "~"}

ascii_uppercase ==
    <<"A", "B", "C", "D", "E", "F", "G", "H", "I", "J", "K", "L", "M", "N",
      "O", "P", "Q", "R", "S", "T", "U", "V", "W", "X", "Y", "Z">>

ascii_lowercase ==
    <<"a", "b", "c", "d", "e", "f", "g", "h", "i", "j", "k", "l", "m", "n",
      "o", "p", "q", "r", "s", "t", "u", "v", "w", "x", "y", "z">>

\* the lower-case letter of every upper-case letter
lower_table ==
    [c \in {ascii_uppercase[i] : i \in 1..Len(ascii_uppercase)} |->
        ascii_lowercase[CHOOSE i \in 1..Len(ascii_uppercase) :
                            ascii_uppercase[i] = c]]

\* str.lower() of one character
lower_char(c) == IF c \in DOMAIN lower_table THEN lower_table[c] ELSE c

\* str.lower()
lower(s) == [i \in 1..Len(s) |-> lower_char(s[i])]

RECURSIVE split_from(_, _, _, _)
\* the scan of str.split(): word is the token being read, words those read
split_from(s, i, word, words) ==
    IF i > Len(s)
    THEN IF word = <<>> THEN words ELSE Append(words, word)
    ELSE IF s[i] \in whitespace
         THEN split_from(s, i + 1, <<>>,
                         IF word = <<>> THEN words ELSE Append(words, word))
         ELSE split_from(s, i + 1, Append(word, s[i]), words)

\* str.split() with no argument: the maximal runs of non-whitespace
split(s) == split_from(s, 1, <<>>, <<>>)

RECURSIVE lstrip(_, _)
lstrip(s, chars) ==
    IF s # <<>> /\ Head(s) \in chars THEN lstrip(Tail(s), chars) ELSE s

RECURSIVE rstrip(_, _)
rstrip(s, chars) ==
    IF s # <<>> /\ s[Len(s)] \in chars
    THEN rstrip(SubSeq(s, 1, Len(s) - 1), chars)
    ELSE s

\* str.strip(chars)
strip(s, chars) == rstrip(lstrip(s, chars), chars)

(***************************************************************************)
(* Values of the program.                                                  *)
(***************************************************************************)
\* a call that returned v, and a call that raised e
Returned(v) == [raises |-> "none", value |-> v]
Raised(e) == [raises |-> e, value |-> <<>>]

Sentinel ==
    <<"N", "o", " ", "W", "i", "k", "i", "p", "e", "d", "i", "a", " ", "E",
      "n", "t", "r", "y", " ", "A", "v", "a", "i", "l", "a", "b", "l", "e",
      " ", "f", "o", "r", " ", "t", "h", "i", "s", " ", "a", "r", "t", "i",
      "s", "t">>

LinkPrefix ==
    <<"h", "t", "t", "p", "s", ":", "/", "/", "w", "e", "b", ".", "a", "r",
      "c", "h", "i", "v", "e", ".", "o", "r", "g">>

Header ==
    <<<<"N", "a", "m", "e">>, <<"L", "i", "n", "k">>,
      <<"W", "i", "k", "i", " ", "S", "u", "m", "m", "a", "r", "y">>>>

keywords ==
    {<<"a", "r", "t">>, <<"a", "r", "t", "i", "s", "t">>,
     <<"s", "c", "u", "l", "p", "t", "o", "r">>,
     <<"p", "a", "i", "n", "t", "e", "r">>}

(***************************************************************************)
(* write_data, lines 66-73: the name to search Wikipedia for.              *)
(***************************************************************************)
\* WikiName with the strip of line 71 left out
WikiNameDropsStrip(name_content) ==
    LET list_first_last_name == split(name_content)
    IN  IF Len(list_first_last_name) >= 2
        THEN Returned(list_first_last_name[2] \o <<" ">>
                      \o list_first_last_name[1])
        ELSE IF Len(list_first_last_name) >= 1
             THEN Returned(strip(list_first_last_name[1], punctuation))
             ELSE Raised("IndexError")

WikiName(name_content) ==
    LET list_first_last_name == split(name_content)
    IN  IF Len(list_first_last_name) >= 2
        THEN Returned(list_first_last_name[2] \o <<" ">>
                      \o strip(list_first_last_name[1], punctuation))
        ELSE IF Len(list_first_last_name) >= 1
             THEN Returned(strip(list_first_last_name[1], punctuation))
             ELSE Raised("IndexError")

(***************************************************************************)
(* check_if_artist, lines 100-110.                                         *)
(***************************************************************************)
RECURSIVE words_loop(_, _)
\* the loop of line 106 from word j on
words_loop(words, j) ==
    IF j > Len(words) THEN FALSE
    ELSE IF lower(words[j]) \in keywords THEN TRUE
         ELSE words_loop(words, j + 1)

RECURSIVE categories_loop(_, _)
\* the loop of line 104 from category i on
categories_loop(list_of_categories, i) ==
    IF i > Len(list_of_categories) THEN FALSE
    ELSE IF words_loop(split(list_of_categories[i]), 1) THEN TRUE
         ELSE categories_loop(list_of_categories, i + 1)

\* check_if_artist returning after its first category
CheckIfArtistFirstOnly(list_of_categories) ==
    list_of_categories # <<>>
    /\ words_loop(split(list_of_categories[1]), 1)

check_if_artist(list_of_categories) == categories_loop(list_of_categories, 1)

(***************************************************************************)
(* What the collaborators can answer.                                      *)
(***************************************************************************)
\* an exception on its way out of main: its class and the line that raised it
NoException == [type |-> "none", line |-> 0]
Exception(type, line) == [type |-> type, line |-> line]

\* wiki_page before wikipedia.page has answered
NoPage ==
    [raises |-> "unset", title |-> <<>>, categories |-> Raised("unset"),
     summary |-> Raised("unset")]

\* a WikipediaPage: .title is set by the constructor, .categories and
\* .summary are fetched on first access and may raise then
Page(title, categories, summary) ==
    [raises |-> "none", title |-> title, categories |-> categories,
     summary |-> summary]

\* wikipedia.page raised
PageRaised(e) ==
    [raises |-> e, title |-> <<>>, categories |-> Raised("unset"),
     summary |-> Raised("unset")]

\* the <a> tags of the listings: name.contents[0] and name.get('href'),
\* which is None when the tag has no href
Tag(name_content, has_href, href) ==
    [name_content |-> name_content, has_href |-> has_href, href |-> href]

Tags ==
    {Tag(<<"L", "i", ",", " ", "B", "o">>, TRUE, <<"/", "a">>),
     Tag(<<"I", "o">>, TRUE, <<"/", "b">>),
     Tag(<<>>, TRUE, <<"/", "a">>),
     Tag(<<"-">>, TRUE, <<"/", "b">>),
     Tag(<<"L", "i", ",", " ", "B", "o">>, FALSE, <<>>)}

\* the lists of at most n tags
TagLists(n) == UNION {[1..k -> Tags] : k \in 0..n}

Titles == {<<"B", "O", " ", "L", "I">>, <<"I", "o">>, <<"Z", "e", "d">>}

CategoryLists ==
    {<<>>, <<<<"O", "p", " ", "A", "r", "t">>>>, <<<<"a", "r", "t", "s">>>>}

Summaries == {<<"b", "i", "o">>}

\* a lazily fetched property: its value, or the exception its fetch raises.
\* ConnectionError stands for the exceptions that are no
\* wikipedia.WikipediaException: the library makes its requests with
\* requests.get and does not wrap what that raises.
Fetched(values) ==
    {Returned(v) : v \in values}
        \cup {Raised("WikipediaException"), Raised("ConnectionError")}

\* what wikipedia.page(wiki_name) can do
PageOutcomes ==
    {Page(t, c, s) : t \in Titles, c \in Fetched(CategoryLists),
                     s \in Fetched(Summaries)}
        \cup {PageRaised("WikipediaException"), PageRaised("ConnectionError")}

\* what get_name_list can do while n more tags fit the model
NameListOutcomes(n) ==
    {Returned(l) : l \in TagLists(n)}
        \cup {Raised("RequestException"), Raised("AttributeError")}

(***************************************************************************)
(* write_data, lines 76-84: the summary for wiki_name once wikipedia.page  *)
(* has answered with page.  Gives the summary, what check_if_artist        *)
(* returned, and the exception that leaves the try statement, if any.      *)
(***************************************************************************)
Resolved(summary, artist) ==
    [raises |-> NoException, wiki_summary |-> summary, is_artist |-> artist]

Escapes(type, line, artist) ==
    [raises |-> Exception(type, line), wiki_summary |-> <<>>,
     is_artist |-> artist]

\* line 80, and the handler of line 83 around it
TakeSummary(page, artist) ==
    IF page.summary.raises = "none"
    THEN Resolved(page.summary.value, artist)
    ELSE IF page.summary.raises = "WikipediaException"
         THEN Resolved(Sentinel, artist)
         ELSE Escapes(page.summary.raises, 80, artist)

\* Resolve without the check_if_artist half of line 78
ResolveTitleOnly(name, page) ==
    IF page.raises = "WikipediaException" THEN Resolved(Sentinel, "not called")
    ELSE IF page.raises # "none" THEN Escapes(page.raises, 77, "not called")
    ELSE IF lower(page.title) = lower(name)
         THEN TakeSummary(page, "not called")
         ELSE Resolved(Sentinel, "not called")

Resolve(name, page) ==
    IF page.raises = "WikipediaException" THEN Resolved(Sentinel, "not called")
    ELSE IF page.raises # "none" THEN Escapes(page.raises, 77, "not called")
    ELSE IF lower(page.title) = lower(name)
         THEN TakeSummary(page, "not called")
         ELSE IF page.categories.raises = "WikipediaException"
              THEN Resolved(Sentinel, "raised")
              ELSE IF page.categories.raises # "none"
                   THEN Escapes(page.categories.raises, 101, "raised")
                   ELSE IF check_if_artist(page.categories.value)
                        THEN TakeSummary(page, "True")
                        ELSE Resolved(Sentinel, "False")

(***************************************************************************)
(* The program.                                                            *)
(***************************************************************************)
Init ==
    /\ pc = "open"
    /\ file = "unopened"
    /\ sink = <<>>
    /\ character = 0
    /\ name_list = <<>>
    /\ idx = 0
    /\ base = 0
    /\ wiki_name = <<>>
    /\ wiki_page = NoPage
    /\ wiki_summary = <<>>
    /\ is_artist = "not called"
    /\ exc = NoException
    /\ lookups = <<>>

\* an exception nothing catches: main ends with it
Abort(e) ==
    /\ pc' = "aborted"
    /\ exc' = e

\* line 114
Open ==
    /\ pc = "open"
    /\ file' = "open"
    /\ pc' = "header"
    /\ UNCHANGED <<sink, character, name_list, idx, base, wiki_name,
                   wiki_page, wiki_summary, is_artist, exc, lookups>>

\* line 115
WriteHeader ==
    /\ pc = "header"
    /\ sink' = Append(sink, Header)
    /\ pc' = "main_loop"
    /\ UNCHANGED <<file, character, name_list, idx, base, wiki_name,
                   wiki_page, wiki_summary, is_artist, exc, lookups>>

\* the data rows written so far
DataRows == IF sink = <<>> THEN 0 ELSE Len(sink) - 1

\* GetNameList with the header written for every letter
GetNameListHeaderPerPage ==
    /\ pc = "main_loop"
    /\ character < NumPages
    /\ \E r \in NameListOutcomes(MaxEntries - DataRows) :
          IF r.raises # "none"
          THEN /\ Abort(Exception(r.raises, 121))
               /\ UNCHANGED <<file, sink, character, name_list, idx, base,
                              wiki_name, wiki_page, wiki_summary, is_artist,
                              lookups>>
          ELSE /\ character' = character + 1
               /\ name_list' = r.value
               /\ sink' = Append(sink, Header)
               /\ base' = Len(sink')
               /\ idx' = IF r.value = <<>> THEN 0 ELSE 1
               /\ pc' = IF r.value = <<>> THEN "main_loop" ELSE "wiki_name"
               /\ UNCHANGED <<file, wiki_name, wiki_page, wiki_summary,
                              is_artist, exc, lookups>>

\* lines 118-122, one more letter: get_name_list, then the call of
\* write_data up to its first name (line 60)
GetNameList ==
    /\ pc = "main_loop"
    /\ character < NumPages
    /\ \E r \in NameListOutcomes(MaxEntries - DataRows) :
          IF r.raises # "none"
          THEN /\ Abort(Exception(r.raises, 121))
               /\ UNCHANGED <<file, sink, character, name_list, idx, base,
                              wiki_name, wiki_page, wiki_summary, is_artist,
                              lookups>>
          ELSE /\ character' = character + 1
               /\ name_list' = r.value
               /\ base' = Len(sink)
               /\ idx' = IF r.value = <<>> THEN 0 ELSE 1
               /\ pc' = IF r.value = <<>> THEN "main_loop" ELSE "wiki_name"
               /\ UNCHANGED <<file, sink, wiki_name, wiki_page, wiki_summary,
                              is_artist, exc, lookups>>

\* line 118, no letter left: main returns
MainReturn ==
    /\ pc = "main_loop"
    /\ character = NumPages
    /\ pc' = "done"
    /\ UNCHANGED <<file, sink, character, name_list, idx, base, wiki_name,
                   wiki_page, wiki_summary, is_artist, exc, lookups>>

\* line 62
Link(name) == LinkPrefix \o name.href

\* lines 61-73
DeriveKey ==
    /\ pc = "wiki_name"
    /\ LET name == name_list[idx]
           r == WikiName(name.name_content)
       IN  IF ~name.has_href
           THEN Abort(Exception("TypeError", 62)) /\ UNCHANGED wiki_name
           ELSE IF r.raises # "none"
                THEN Abort(Exception(r.raises, 73)) /\ UNCHANGED wiki_name
                ELSE /\ wiki_name' = r.value
                     /\ pc' = "wiki_page"
                     /\ UNCHANGED exc
    /\ UNCHANGED <<file, sink, character, name_list, idx, base, wiki_page,
                   wiki_summary, is_artist, lookups>>

\* WikipediaPage calling wikipedia.page a second time
WikipediaPageTwice ==
    /\ pc = "wiki_page"
    /\ \E r \in PageOutcomes : wiki_page' = r
    /\ lookups' = lookups \o <<wiki_name, wiki_name>>
    /\ pc' = "accept"
    /\ UNCHANGED <<file, sink, character, name_list, idx, base, wiki_name,
                   wiki_summary, is_artist, exc>>

\* line 77: the call of wikipedia.page and its answer
WikipediaPage ==
    /\ pc = "wiki_page"
    /\ \E r \in PageOutcomes : wiki_page' = r
    /\ lookups' = Append(lookups, wiki_name)
    /\ pc' = "accept"
    /\ UNCHANGED <<file, sink, character, name_list, idx, base, wiki_name,
                   wiki_summary, is_artist, exc>>

\* lines 78-84, the rest of the try statement
Accept ==
    /\ pc = "accept"
    /\ LET r == Resolve(wiki_name, wiki_page)
       IN  /\ is_artist' = r.is_artist
           /\ IF r.raises # NoException
              THEN Abort(r.raises) /\ UNCHANGED wiki_summary
              ELSE /\ wiki_summary' = r.wiki_summary
                   /\ pc' = "writerow"
                   /\ UNCHANGED exc
    /\ UNCHANGED <<file, sink, character, name_list, idx, base, wiki_name,
                   wiki_page, lookups>>

\* what line 86 leaves behind it: the next name of the loop of line 60, or
\* the return to main.  The locals are dead until their next assignment
\* and are cleared here.
AfterRow ==
    /\ IF idx < Len(name_list)
       THEN idx' = idx + 1 /\ pc' = "wiki_name"
       ELSE idx' = 0 /\ pc' = "main_loop"
    /\ wiki_name' = <<>>
    /\ wiki_page' = NoPage
    /\ wiki_summary' = <<>>
    /\ is_artist' = "not called"

\* WriteRow writing wiki_name in the Name column
WriteRowSearchName ==
    /\ pc = "writerow"
    /\ \/ /\ sink' = Append(sink, <<wiki_name, Link(name_list[idx]),
                                    wiki_summary>>)
          /\ AfterRow
          /\ UNCHANGED exc
       \/ /\ Abort(Exception("OSError", 86))
          /\ UNCHANGED <<sink, idx, wiki_name, wiki_page, wiki_summary,
                         is_artist>>
    /\ UNCHANGED <<file, character, name_list, base, lookups>>

\* line 86: the row is written, or the write fails
WriteRow ==
    /\ pc = "writerow"
    /\ \/ /\ sink' = Append(sink, <<name_list[idx].name_content,
                                    Link(name_list[idx]), wiki_summary>>)
          /\ AfterRow
          /\ UNCHANGED exc
       \/ /\ Abort(Exception("OSError", 86))
          /\ UNCHANGED <<sink, idx, wiki_name, wiki_page, wiki_summary,
                         is_artist>>
    /\ UNCHANGED <<file, character, name_list, base, lookups>>

Next ==
    \/ Open
    \/ WriteHeader
    \/ GetNameList
    \/ MainReturn
    \/ DeriveKey
    \/ WikipediaPage
    \/ Accept
    \/ WriteRow

Spec == Init /\ [][Next]_vars

(***************************************************************************)
(* The name derivation alone: write_data at its first name, for every      *)
(* display name over NameChars of at most MaxNameLen characters.           *)
(***************************************************************************)
NameChars == {"a", "B", ",", " ", "\t"}

DisplayNames == UNION {[1..k -> NameChars] : k \in 0..MaxNameLen}

InitDerive ==
    /\ pc = "wiki_name"
    /\ file = "open"
    /\ sink = <<Header>>
    /\ character = 1
    /\ name_list \in {<<Tag(n, TRUE, <<"/", "a">>)>> : n \in DisplayNames}
    /\ idx = 1
    /\ base = 1
    /\ wiki_name = <<>>
    /\ wiki_page = NoPage
    /\ wiki_summary = <<>>
    /\ is_artist = "not called"
    /\ exc = NoException
    /\ lookups = <<>>

DeriveSpec == InitDerive /\ [][DeriveKey]_vars

(***************************************************************************)
(* The acceptance test alone: write_data after wikipedia.page answered     *)
(* with a page whose title is not the name searched, for every list of at  *)
(* most MaxCats categories of which one is any string over CategoryChars   *)
(* of at most MaxCatLen characters and the others are taken from           *)
(* SampleCategories.                                                       *)
(***************************************************************************)
CategoryChars == {"a", "r", "t", "A", " "}

SampleCategories ==
    {<<"S", "p", "a", "n", "i", "s", "h", " ", "p", "a", "i", "n", "t", "e",
       "r", "s">>,
     <<"1", "8", "8", "1", " ", "b", "i", "r", "t", "h", "s">>,
     <<"F", "r", "e", "n", "c", "h", "\t", "S", "c", "u", "l", "p", "t", "o",
       "r">>,
     <<"P", "A", "I", "N", "T", "E", "R", " ", "o", "f", " ", "a", "r", "t",
       "s">>}

Categories ==
    SampleCategories
        \cup UNION {[1..k -> CategoryChars] : k \in 0..MaxCatLen}

\* the list l of sample categories with its p-th category replaced by g
ClassifyInput(l, p, g) == IF l = <<>> THEN <<>> ELSE [l EXCEPT ![p] = g]

InitClassify ==
    /\ pc = "accept"
    /\ file = "open"
    /\ sink = <<Header>>
    /\ character = 1
    /\ name_list = <<Tag(<<"L", "i", ",", " ", "B", "o">>, TRUE, <<"/", "a">>)>>
    /\ idx = 1
    /\ base = 1
    /\ wiki_name = <<"B", "o", " ", "L", "i">>
    /\ \E k \in 0..MaxCats :
          \E l \in [1..k -> SampleCategories] :
              \E p \in (IF k = 0 THEN {0} ELSE 1..k) :
                  \E g \in (IF k = 0 THEN {<<>>} ELSE Categories) :
                      wiki_page =
                          Page(<<"Z", "e", "d">>,
                               Returned(ClassifyInput(l, p, g)),
                               Returned(<<"b", "i", "o">>))
    /\ wiki_summary = <<>>
    /\ is_artist = "not called"
    /\ exc = NoException
    /\ lookups = <<wiki_name>>

ClassifySpec == InitClassify /\ [][Accept]_vars

(***************************************************************************)
(* What the properties speak of, stated without the scans of the code.     *)
(***************************************************************************)
\* a whitespace-delimited token of s starts at i
IsTokenStart(s, i) ==
    /\ s[i] \notin whitespace
    /\ i = 1 \/ s[i - 1] \in whitespace

\* the token of s that starts at i ends at j
IsTokenEnd(s, i, j) ==
    /\ \A k \in i..j : s[k] \notin whitespace
    /\ j = Len(s) \/ s[j + 1] \in whitespace

\* the whitespace-delimited tokens of s, as <<first index, last index>>
TokenSpans(s) ==
    {<<i, CHOOSE j \in i..Len(s) : IsTokenEnd(s, i, j)>> :
        i \in {i \in 1..Len(s) : IsTokenStart(s, i)}}

\* the leftmost of a non-empty set of token spans
FirstSpan(spans) == CHOOSE sp \in spans : \A o \in spans : sp[1] <= o[1]

TokenOf(s, sp) == SubSeq(s, sp[1], sp[2])

\* t from its first to its last character that is no punctuation
WithoutOuterPunctuation(t) ==
    LET keep == {k \in 1..Len(t) : t[k] \notin punctuation}
    IN  IF keep = {} THEN <<>>
        ELSE SubSeq(t, CHOOSE k \in keep : \A o \in keep : k <= o,
                       CHOOSE k \in keep : \A o \in keep : k >= o)

\* some token of some category is a keyword once lower-cased
HasKeywordToken(categories) ==
    \E c \in 1..Len(categories) :
        \E sp \in TokenSpans(categories[c]) :
            lower(TokenOf(categories[c], sp)) \in keywords

\* no token at all, or a single token made of punctuation only
Degenerate(name_content) ==
    \/ TokenSpans(name_content) = {}
    \/ /\ Cardinality(TokenSpans(name_content)) = 1
       /\ \A k \in 1..Len(name_content) :
              name_content[k] \in punctuation \cup whitespace

\* the name write_data is working on
CurrentName == name_list[idx].name_content

\* wikipedia.page answered with a page whose categories and summary load
CandidateFound ==
    /\ wiki_page.raises = "none"
    /\ wiki_page.categories.raises = "none"
    /\ wiki_page.summary.raises = "none"

\* the lookup of the current name failed: wikipedia.page raised
LookupFailed == wiki_page.raises \notin {"none", "unset"}

(***************************************************************************)
(* C1: when write_data has returned, it has written as many rows as its    *)
(* list has names, and its i-th row carries the i-th display name and the  *)
(* i-th link (the href behind the archive prefix).                         *)
(***************************************************************************)
C1_RowPerEntryInOrder ==
    (pc \in {"main_loop", "done"} /\ character > 0) =>
        /\ Len(sink) = base + Len(name_list)
        /\ \A i \in 1..Len(name_list) :
              /\ sink[base + i][1] = name_list[i].name_content
              /\ sink[base + i][2] = LinkPrefix \o name_list[i].href

C1_Witness ==
    /\ pc = "main_loop"
    /\ Len(name_list) = 2
    /\ name_list[1].name_content # name_list[2].name_content
    /\ sink[base + 1][3] = Sentinel
    /\ sink[base + 2][3] # Sentinel

(***************************************************************************)
(* C2: whenever wikipedia.page fails, whatever the exception, the summary  *)
(* of the name is the sentinel and no exception leaves write_data.         *)
(***************************************************************************)
C2_EveryLookupFailureGivesSentinel ==
    (LookupFailed /\ pc # "accept") =>
        /\ pc = "writerow"
        /\ wiki_summary = Sentinel
        /\ exc = NoException

(***************************************************************************)
(* C3: when the lookup gives a page with title, categories and summary,    *)
(* the summary of the name is the page's summary if the title equals the   *)
(* name searched case-insensitively or some category token is a keyword,   *)
(* and the sentinel otherwise.                                             *)
(***************************************************************************)
C3_AcceptTitleOrCategory ==
    (pc = "writerow" /\ CandidateFound) =>
        wiki_summary =
            IF \/ lower(wiki_page.title) = lower(wiki_name)
               \/ HasKeywordToken(wiki_page.categories.value)
            THEN wiki_page.summary.value
            ELSE Sentinel

C3_Witness ==
    /\ pc = "writerow"
    /\ CandidateFound
    /\ wiki_page.title # wiki_name
    /\ lower(wiki_page.title) = lower(wiki_name)
    /\ ~HasKeywordToken(wiki_page.categories.value)
    /\ wiki_summary = wiki_page.summary.value

(***************************************************************************)
(* C4: check_if_artist returns True exactly when some whitespace-delimited *)
(* token of some category, lower-cased, is one of art, artist, sculptor,   *)
(* painter; so it returns False for no category and for a token that only  *)
(* contains a keyword.                                                     *)
(***************************************************************************)
C4_ClassifyIffKeywordToken ==
    (pc = "writerow" /\ is_artist \in {"True", "False"}) =>
        /\ is_artist = "True" <=> HasKeywordToken(wiki_page.categories.value)
        /\ wiki_page.categories.value = <<>> => is_artist = "False"

C4_Witness ==
    /\ pc = "writerow"
    /\ is_artist = "True"
    /\ Len(wiki_page.categories.value) = 2
    /\ ~HasKeywordToken(<<wiki_page.categories.value[1]>>)
    /\ \E sp \in TokenSpans(wiki_page.categories.value[2]) :
          /\ sp[1] > 1
          /\ TokenOf(wiki_page.categories.value[2], sp) \notin keywords
          /\ lower(TokenOf(wiki_page.categories.value[2], sp)) \in keywords

(***************************************************************************)
(* C5: for a display name of two or more tokens the name searched is the   *)
(* second token, a space, and the first token without its leading and      *)
(* trailing punctuation; nothing else of the display name enters it.       *)
(***************************************************************************)
C5_TwoTokenKey ==
    (pc # "wiki_name" /\ Cardinality(TokenSpans(CurrentName)) >= 2) =>
        LET spans == TokenSpans(CurrentName)
            first == FirstSpan(spans)
            second == FirstSpan(spans \ {first})
        IN  /\ pc = "wiki_page"
            /\ wiki_name =
                   TokenOf(CurrentName, second) \o <<" ">>
                       \o WithoutOuterPunctuation(TokenOf(CurrentName, first))

C5_Witness ==
    /\ pc = "wiki_page"
    /\ Cardinality(TokenSpans(CurrentName)) = 3
    /\ CurrentName[2] = ","
    /\ wiki_name = <<"B", " ", "a">>

(***************************************************************************)
(* C6: for a display name that is empty, only whitespace or only           *)
(* punctuation the derivation ends in an error; no empty name is ever      *)
(* searched.                                                               *)
(***************************************************************************)
C6_DegenerateNameIsAnError ==
    /\ \A i \in 1..Len(lookups) : lookups[i] # <<>>
    /\ (pc \in {"wiki_page", "accept", "writerow"}) => ~Degenerate(CurrentName)

(***************************************************************************)
(* C7: a failure of the lookup or of the acceptance test of one name never *)
(* ends the run while names of the list are still to be processed.         *)
(***************************************************************************)
C7_FailureDoesNotStopLaterEntries ==
    ~(/\ pc = "aborted"
      /\ exc.line \in {77, 80, 101}
      /\ idx < Len(name_list))

(***************************************************************************)
(* C8: the header row Name, Link, Wiki Summary is written once, as the     *)
(* first row, before any data row of any letter page.                      *)
(***************************************************************************)
C8_HeaderOnceAndFirst ==
    /\ pc \in {"open", "header"} => sink = <<>>
    /\ pc \notin {"open", "header"} =>
          /\ sink # <<>>
          /\ sink[1] = Header
          /\ \A i \in 2..Len(sink) : sink[i] # Header

C8_Witness ==
    /\ pc = "done"
    /\ character = 2
    /\ base = 2
    /\ Len(sink) = 3

(***************************************************************************)
(* C9: the file opened at the start of main is closed whenever main ends,  *)
(* by returning or by an exception.                                        *)
(***************************************************************************)
C9_SinkClosedOnEveryExit ==
    /\ pc \in {"done", "aborted"} => file = "closed"
    /\ pc \notin {"open", "done", "aborted"} => file = "open"

====
